---------------------------- MODULE Spec2Model ----------------------------
(***************************************************************************)
(* Tabular SARSA agent (sarsa.py) and its training / evaluation loop       *)
(* (train_sarsa.py).                                                       *)
(*                                                                         *)
(* Numbers.  epsilon is a Python float: schedule_hyperparameters is        *)
(* modelled in IEEE-754 binary64 with round-to-nearest-even, on natural    *)
(* numbers held as little-endian sequences of 15-bit limbs (TLC integers   *)
(* are 32 bits wide).  Q-values, rewards, alpha and gamma are exact        *)
(* rationals <<numerator, denominator>> in lowest terms.                   *)
(***************************************************************************)
EXTENDS Integers, Sequences, FiniteSets, TLC

(***************************************************************************)
(* Natural numbers of any size: little-endian limbs, no leading zero limb. *)
(***************************************************************************)
LimbBase == 2^15

RECURSIVE BigOfNat(_)
BigOfNat(n) == IF n = 0 THEN <<>> ELSE <<n % LimbBase>> \o BigOfNat(n \div LimbBase)

RECURSIVE BigTrim(_)
BigTrim(a) ==
    IF a = <<>> THEN <<>>
    ELSE IF a[Len(a)] = 0 THEN BigTrim(SubSeq(a, 1, Len(a) - 1)) ELSE a

BigLimb(a, i) == IF i <= Len(a) THEN a[i] ELSE 0

BigMaxLen(a, b) == IF Len(a) >= Len(b) THEN Len(a) ELSE Len(b)

RECURSIVE BigCmpFrom(_, _, _)
BigCmpFrom(a, b, i) ==
    IF i = 0 THEN 0
    ELSE IF BigLimb(a, i) < BigLimb(b, i) THEN -1
    ELSE IF BigLimb(a, i) > BigLimb(b, i) THEN 1
    ELSE BigCmpFrom(a, b, i - 1)

\* -1, 0 or 1 as a < b, a = b, a > b
BigCmp(a, b) == BigCmpFrom(a, b, BigMaxLen(a, b))

RECURSIVE BigAddFrom(_, _, _, _)
BigAddFrom(a, b, i, carry) ==
    IF i > BigMaxLen(a, b)
    THEN (IF carry = 0 THEN <<>> ELSE <<carry>>)
    ELSE LET s == BigLimb(a, i) + BigLimb(b, i) + carry
         IN  <<s % LimbBase>> \o BigAddFrom(a, b, i + 1, s \div LimbBase)

BigAdd(a, b) == BigAddFrom(a, b, 1, 0)

RECURSIVE BigSubFrom(_, _, _, _)
BigSubFrom(a, b, i, borrow) ==
    IF i > Len(a) THEN <<>>
    ELSE LET d == BigLimb(a, i) - BigLimb(b, i) - borrow
         IN  IF d < 0
             THEN <<d + LimbBase>> \o BigSubFrom(a, b, i + 1, 1)
             ELSE <<d>> \o BigSubFrom(a, b, i + 1, 0)

\* a - b, for a >= b
BigSub(a, b) == BigTrim(BigSubFrom(a, b, 1, 0))

RECURSIVE BigMulLimbFrom(_, _, _, _)
BigMulLimbFrom(a, k, i, carry) ==
    IF i > Len(a)
    THEN (IF carry = 0 THEN <<>> ELSE <<carry>>)
    ELSE LET p == a[i] * k + carry
         IN  <<p % LimbBase>> \o BigMulLimbFrom(a, k, i + 1, p \div LimbBase)

\* a * k, for 0 <= k < LimbBase
BigMulLimb(a, k) == BigTrim(BigMulLimbFrom(a, k, 1, 0))

BigShiftLimbs(a, n) == IF a = <<>> THEN <<>> ELSE [i \in 1..n |-> 0] \o a

RECURSIVE BigMulFrom(_, _, _)
BigMulFrom(a, b, j) ==
    IF j > Len(b) THEN <<>>
    ELSE BigAdd(BigShiftLimbs(BigMulLimb(a, b[j]), j - 1), BigMulFrom(a, b, j + 1))

BigMul(a, b) == BigMulFrom(a, b, 1)

\* a * 2^n
BigShl(a, n) == BigShiftLimbs(BigMulLimb(a, 2^(n % 15)), n \div 15)

\* floor(a / 2^n)
BigShr(a, n) ==
    LET k    == n % 15
        b    == SubSeq(a, n \div 15 + 1, Len(a))
        low  == 2^k
        high == 2^(15 - k)
    IN  BigTrim([i \in 1 .. Len(b) |->
                    (b[i] \div low) + (BigLimb(b, i + 1) % low) * high])

\* floor(a / 2)
BigHalve(a) == BigShr(a, 1)

RECURSIVE NatBitLen(_)
NatBitLen(n) == IF n = 0 THEN 0 ELSE 1 + NatBitLen(n \div 2)

BigBitLen(a) == IF a = <<>> THEN 0 ELSE 15 * (Len(a) - 1) + NatBitLen(a[Len(a)])

BigIsOdd(a) == a # <<>> /\ a[1] % 2 = 1


(***************************************************************************)
(* Non-negative binary64 values: [m, e] stands for m * 2^e, with m a       *)
(* 53-bit natural (zero is m = <<>>, e = 0).  Every operation rounds its   *)
(* exact result to nearest, ties to even, as Python's float arithmetic.    *)
(***************************************************************************)
MantBits == 53

DblZero == [m |-> <<>>, e |-> 0]

\* n * 2^e rounded to binary64; sticky says that the exact value is a little
\* above n * 2^e (by less than one unit of n)
DblRound(n, e, sticky) ==
    LET L == BigBitLen(n) IN
    IF n = <<>> THEN DblZero
    ELSE IF L <= MantBits
    THEN [m |-> BigShl(n, MantBits - L), e |-> e - (MantBits - L)]
    ELSE LET sh   == L - MantBits
             q    == BigShr(n, sh)
             rem  == BigSub(n, BigShl(q, sh))
             half == BigShl(<<1>>, sh - 1)
             c    == BigCmp(rem, half)
             up   == c > 0 \/ (c = 0 /\ (sticky \/ BigIsOdd(q)))
             q2   == IF up THEN BigAdd(q, <<1>>) ELSE q
         IN  IF BigBitLen(q2) > MantBits
             THEN [m |-> BigHalve(q2), e |-> e + sh + 1]
             ELSE [m |-> q2, e |-> e + sh]

\* int -> float
DblOfNat(n) == DblRound(BigOfNat(n), 0, FALSE)

\* -1, 0 or 1 as x < y, x = y, x > y
DblCmp(x, y) ==
    IF x.m = <<>> THEN (IF y.m = <<>> THEN 0 ELSE -1)
    ELSE IF y.m = <<>> THEN 1
    ELSE IF x.e < y.e THEN -1
    ELSE IF x.e > y.e THEN 1
    ELSE BigCmp(x.m, y.m)

DblMul(x, y) ==
    IF x.m = <<>> \/ y.m = <<>> THEN DblZero
    ELSE DblRound(BigMul(x.m, y.m), x.e + y.e, FALSE)

RECURSIVE BigDigitFix(_, _, _)
\* the largest digit q <= guess with d * q <= r
BigDigitFix(r, d, guess) ==
    IF BigCmp(BigMulLimb(d, guess), r) > 0 THEN BigDigitFix(r, d, guess - 1) ELSE guess

\* floor(r / d), for r < d * LimbBase: the guess from the leading limbs is
\* never too small, and is at most 2 too large when d's leading limb is full
BigDigit(r, d) ==
    IF BigCmp(r, d) < 0 THEN 0
    ELSE LET top   == IF Len(r) > Len(d)
                      THEN r[Len(r)] * LimbBase + r[Len(r) - 1]
                      ELSE r[Len(r)]
             guess == top \div d[Len(d)]
         IN  BigDigitFix(r, d, IF guess > LimbBase - 1 THEN LimbBase - 1 ELSE guess)

RECURSIVE BigDivFrom(_, _, _, _, _)
\* long division, limb i of n next, q the quotient limbs found so far and
\* r the running remainder: <<quotient limbs, remainder>>
BigDivFrom(n, d, i, q, r) ==
    IF i = 0 THEN <<q, r>>
    ELSE LET r1    == BigTrim(<<n[i]>> \o r)
             digit == BigDigit(r1, d)
             r2    == BigSub(r1, BigMulLimb(d, digit))
         IN  \* the test evaluates digit and r2 here, before the next limb
             IF digit + Len(r2) >= 0
             THEN BigDivFrom(n, d, i - 1, <<digit>> \o q, r2)
             ELSE <<>>

\* <<floor(n / d), n mod d>>, for d > 0
BigDivMod(n, d) ==
    LET qr == BigDivFrom(n, d, Len(n), <<>>, <<>>) IN <<BigTrim(qr[1]), qr[2]>>

GuardBits == 2
NormBits == 7

\* x / y, for y > 0: the quotient of the mantissas to MantBits + GuardBits
\* places or one more, both shifted NormBits so that the divisor's leading
\* limb is full
DblDiv(x, y) ==
    IF x.m = <<>> THEN DblZero
    ELSE LET qr == BigDivMod(BigShl(x.m, MantBits + GuardBits + NormBits),
                             BigShl(y.m, NormBits))
         IN  DblRound(qr[1], x.e - y.e - (MantBits + GuardBits), qr[2] # <<>>)

\* x - y, for x >= y
DblSub(x, y) ==
    IF y.m = <<>> THEN x
    ELSE LET e == IF x.e < y.e THEN x.e ELSE y.e
         IN  DblRound(BigSub(BigShl(x.m, x.e - e), BigShl(y.m, y.e - e)), e, FALSE)

\* Python's min(x, y): y only when y < x
DblMin(x, y) == IF DblCmp(y, x) < 0 THEN y ELSE x

\* the float literals of the program
DblOne == [m |-> <<0, 0, 0, 128>>, e |-> -52]
Dbl007 == [m |-> <<20972, 15728, 11796, 143>>, e |-> -56]
Dbl095 == [m |-> <<26214, 19660, 6553, 243>>, e |-> -53]
\* CONFIG["epsilon"] = 0.9
Dbl09 == [m |-> <<19661, 6553, 13107, 230>>, e |-> -53]

\* as schedule_hyperparameters, were the decay 0.9 for 0.95
schedule_decay_09(timestep, max_timestep) ==
    DblSub(DblOne,
           DblMul(DblMin(DblOne,
                         DblDiv(DblOfNat(timestep),
                                DblMul(Dbl007, DblOfNat(max_timestep)))),
                  Dbl09))

\* SARSA.schedule_hyperparameters: the value assigned to self.epsilon,
\* 1.0-(min(1.0, timestep/(0.07*max_timestep)))*0.95
schedule_hyperparameters(timestep, max_timestep) ==
    DblSub(DblOne,
           DblMul(DblMin(DblOne,
                         DblDiv(DblOfNat(timestep),
                                DblMul(Dbl007, DblOfNat(max_timestep)))),
                  Dbl095))

(***************************************************************************)
(* Exact rationals <<numerator, denominator>>, denominator > 0, in lowest  *)
(* terms: the Q-values, rewards, returns, alpha and gamma.                 *)
(***************************************************************************)
Abs(i) == IF i < 0 THEN -i ELSE i

RECURSIVE GCD(_, _)
GCD(a, b) == IF b = 0 THEN a ELSE GCD(b, a % b)

RatNorm(n, d) ==
    LET g == GCD(Abs(n), d) IN <<n \div g, d \div g>>

RatOfInt(i) == <<i, 1>>
RatAdd(x, y) == RatNorm(x[1] * y[2] + y[1] * x[2], x[2] * y[2])
RatSub(x, y) == RatNorm(x[1] * y[2] - y[1] * x[2], x[2] * y[2])
RatMul(x, y) == RatNorm(x[1] * y[1], x[2] * y[2])
RatLess(x, y) == x[1] * y[2] < y[1] * x[2]
RatDivInt(x, k) == RatNorm(x[1], x[2] * k)

(***************************************************************************)
(* The agent: Agent.__init__ / SARSA.__init__ set these five fields.       *)
(* q_table is the defaultdict: a function on the keys it stores.           *)
(***************************************************************************)
VARIABLES n_acts, epsilon, gamma, alpha, q_table

agentVars == <<n_acts, epsilon, gamma, alpha, q_table>>

\* defaultdict(lambda: 0): the value the factory gives a missing key
default_factory == RatOfInt(0)

\* the value q_table[k] evaluates to
QValue(q, k) == IF k \in DOMAIN q THEN q[k] ELSE default_factory

\* the table after q_table[k] was evaluated for every k of keys:
\* defaultdict.__getitem__ stores the default under a missing key
QTouch(q, keys) ==
    [k \in DOMAIN q \cup keys |-> IF k \in DOMAIN q THEN q[k] ELSE default_factory]

\* the table after q_table[k] = v
QStore(q, k, v) == [j \in DOMAIN q \cup {k} |-> IF j = k THEN v ELSE q[j]]

\* what act returns when it raises
NoAction == -1

\* range(self.n_acts)
ActRange(n) == 0 .. (n - 1)

\* act_vals = [self.q_table[(obs, act)] for act in range(self.n_acts)]
act_vals(q, o, n) == [i \in 1 .. n |-> QValue(q, <<o, i - 1>>)]

RECURSIVE SeqMax(_, _, _)
SeqMax(vals, i, best) ==
    IF i > Len(vals) THEN best
    ELSE SeqMax(vals, i + 1, IF RatLess(best, vals[i]) THEN vals[i] ELSE best)

\* max_val = max(act_vals), for a non-empty list
max_val(vals) == SeqMax(vals, 2, vals[1])

\* as max_acts, were it to keep the first maximal index only
max_acts_first(vals) ==
    {idx \in 0 .. (Len(vals) - 1) :
        /\ vals[idx + 1] = max_val(vals)
        /\ \A j \in 0 .. (idx - 1) : vals[j + 1] # max_val(vals)}

\* max_acts = [idx for idx, act_val in enumerate(act_vals) if act_val == max_val]
max_acts(vals) == {idx \in 0 .. (Len(vals) - 1) : vals[idx + 1] = max_val(vals)}

\* random.random() < self.epsilon can be true: some r in [0, 1) is below epsilon
CanExplore(eps) == DblCmp(DblZero, eps) < 0

\* random.random() < self.epsilon can be false: some r in [0, 1) is not below
CanExploit(eps) == DblCmp(eps, DblOne) < 0

\* as ExploreOutcomes, were the draw random.randint(0, n_acts)
ExploreOutcomesInclusive(q, eps, n) ==
    IF ~CanExplore(eps) THEN {}
    ELSE IF n < 0
    THEN {[branch |-> "explore", err |-> TRUE, ret |-> NoAction, table |-> q]}
    ELSE {[branch |-> "explore", err |-> FALSE, ret |-> a, table |-> q] : a \in 0 .. n}

\* the exploration branch: random.randint(0, n_acts - 1) raises on an empty range
ExploreOutcomes(q, eps, n) ==
    IF ~CanExplore(eps) THEN {}
    ELSE IF n - 1 < 0
    THEN {[branch |-> "explore", err |-> TRUE, ret |-> NoAction, table |-> q]}
    ELSE {[branch |-> "explore", err |-> FALSE, ret |-> a, table |-> q] : a \in ActRange(n)}

\* as GreedyOutcomes, were max given a default for the empty list
GreedyOutcomesDefault(q, eps, n, o) ==
    LET t == QTouch(q, {<<o, a>> : a \in ActRange(n)})
        vals == act_vals(q, o, n)
    IN  IF ~CanExploit(eps) THEN {}
        ELSE IF vals = <<>>
        THEN {[branch |-> "greedy", err |-> FALSE, ret |-> 0, table |-> t]}
        ELSE {[branch |-> "greedy", err |-> FALSE, ret |-> a, table |-> t] : a \in max_acts(vals)}

\* the greedy branch: max([]) raises; random.choice picks any of max_acts
GreedyOutcomes(q, eps, n, o) ==
    LET t == QTouch(q, {<<o, a>> : a \in ActRange(n)})
        vals == act_vals(q, o, n)
    IN  IF ~CanExploit(eps) THEN {}
        ELSE IF vals = <<>>
        THEN {[branch |-> "greedy", err |-> TRUE, ret |-> NoAction, table |-> t]}
        ELSE {[branch |-> "greedy", err |-> FALSE, ret |-> a, table |-> t] : a \in max_acts(vals)}

\* Agent.act(obs): every outcome the two random draws allow
ActOutcomes(q, eps, n, o) == ExploreOutcomes(q, eps, n) \cup GreedyOutcomes(q, eps, n, o)

\* as LearnTarget, were the factor (1-done) left out
LearnTargetNoTerminal(g, reward, n_q_val, done) ==
    RatAdd(reward, RatMul(g, n_q_val))

\* target = reward + self.gamma*n_q_val*(1-done), done an int (bool is 0 / 1)
LearnTarget(g, reward, n_q_val, done) ==
    RatAdd(reward, RatMul(RatMul(g, n_q_val), RatOfInt(1 - done)))

\* as LearnResult, were the target stored in place of the moving average
LearnResultOverwrite(q, g, al, o, action, reward, n_o, n_action, done) ==
    LET q1      == QTouch(q, {<<o, action>>})
        q2      == QTouch(q1, {<<n_o, n_action>>})
        n_q_val == QValue(q2, <<n_o, n_action>>)
        target  == LearnTarget(g, reward, n_q_val, done)
        q3      == QStore(q2, <<o, action>>, target)
    IN  [table |-> q3, ret |-> QValue(q3, <<o, action>>)]

\* SARSA.learn: the table it leaves and the value it returns
LearnResult(q, g, al, o, action, reward, n_o, n_action, done) ==
    LET q1      == QTouch(q, {<<o, action>>})
        q_val   == QValue(q1, <<o, action>>)
        q2      == QTouch(q1, {<<n_o, n_action>>})
        n_q_val == QValue(q2, <<n_o, n_action>>)
        target  == LearnTarget(g, reward, n_q_val, done)
        new     == RatAdd(QValue(q2, <<o, action>>), RatMul(al, RatSub(target, q_val)))
        q3      == QStore(q2, <<o, action>>, new)
    IN  [table |-> q3, ret |-> QValue(q3, <<o, action>>)]

(***************************************************************************)
(* History of the agent's calls.  last is the call of act, learn or        *)
(* schedule_hyperparameters that the latest step made (NoCall when it      *)
(* made none): its arguments, the table and epsilon it found, and what it  *)
(* returned.  written is the set of (obs, action) pairs some learn call    *)
(* has updated.  calls counts the calls of a client that drives the agent  *)
(* directly.                                                               *)
(***************************************************************************)
VARIABLES last, written, calls

histVars == <<last, written>>

emptyTable == [k \in {} |-> default_factory]

NoCall ==
    [op |-> "none", branch |-> "none", obs |-> 0, action |-> 0,
     reward |-> RatOfInt(0), n_obs |-> 0, n_action |-> 0, done |-> 0,
     timestep |-> 0, max_timestep |-> 0,
     ret_act |-> NoAction, ret_val |-> RatOfInt(0), err |-> FALSE,
     pre |-> emptyTable, eps_pre |-> DblZero]

\* a step that calls no method of the agent
NoAgentCall == last' = NoCall /\ UNCHANGED <<agentVars, written>>

\* as AgentAct, were act to decay epsilon at every call
AgentActDecays(o, out) ==
    /\ out \in ActOutcomes(q_table, epsilon, n_acts, o)
    /\ q_table' = out.table
    /\ epsilon' = DblMul(epsilon, Dbl095)
    /\ last' = [NoCall EXCEPT !.op = "act", !.branch = out.branch, !.obs = o,
                              !.ret_act = out.ret, !.err = out.err,
                              !.pre = q_table, !.eps_pre = epsilon]
    /\ UNCHANGED <<n_acts, gamma, alpha, written>>

\* agent.act(o) with outcome out
AgentAct(o, out) ==
    /\ out \in ActOutcomes(q_table, epsilon, n_acts, o)
    /\ q_table' = out.table
    /\ last' = [NoCall EXCEPT !.op = "act", !.branch = out.branch, !.obs = o,
                              !.ret_act = out.ret, !.err = out.err,
                              !.pre = q_table, !.eps_pre = epsilon]
    /\ UNCHANGED <<n_acts, epsilon, gamma, alpha, written>>

\* agent.learn(o, action, reward, n_o, n_action, done)
AgentLearn(o, action, reward, n_o, n_action, done) ==
    LET res == LearnResult(q_table, gamma, alpha, o, action, reward, n_o, n_action, done)
    IN  /\ q_table' = res.table
        /\ written' = written \cup {<<o, action>>}
        /\ last' = [NoCall EXCEPT !.op = "learn", !.obs = o, !.action = action,
                                  !.reward = reward, !.n_obs = n_o,
                                  !.n_action = n_action, !.done = done,
                                  !.ret_val = res.ret,
                                  !.pre = q_table, !.eps_pre = epsilon]
        /\ UNCHANGED <<n_acts, epsilon, gamma, alpha>>

\* agent.schedule_hyperparameters(timestep, max_timestep)
AgentSchedule(timestep, max_timestep) ==
    /\ epsilon' = schedule_hyperparameters(timestep, max_timestep)
    /\ last' = [NoCall EXCEPT !.op = "schedule", !.timestep = timestep,
                              !.max_timestep = max_timestep,
                              !.pre = q_table, !.eps_pre = epsilon]
    /\ UNCHANGED <<n_acts, gamma, alpha, q_table, written>>

(***************************************************************************)
(* The environment (gymnasium): reset() and step(action) answer anything   *)
(* within these sets.                                                      *)
(***************************************************************************)
States == {0, 1}
Rewards == {RatOfInt(-1)}

\* True counts as 1 and False as 0 in 1 - done
BoolInt(b) == IF b THEN 1 ELSE 0

(***************************************************************************)
(* train(env, eval_env, config) and evaluate(env, agent, max_steps,        *)
(* eval_episodes), one action per statement that calls the agent or the    *)
(* environment or decides a loop.  pc is the position in train; ev is the  *)
(* frame of evaluate while it runs.                                        *)
(*                                                                         *)
(* History: ep counts, for the episode in progress, the calls of           *)
(* schedule_hyperparameters and notes an act made before the first of      *)
(* them, and counts the evaluations of the outer iteration in progress;    *)
(* ep.stepped is the (obs, act) the latest env.step was made from, until   *)
(* learn is called for it, and ep.acts, ep.learns count the act and learn  *)
(* calls since that env.step; snap is the agent's epsilon and table at     *)
(* the entry of evaluate.                                                  *)
(***************************************************************************)
VARIABLES config, pc, completed_steps, completed_evaluations,
          evaluation_return_means, obs, act, n_obs, n_act, reward,
          terminated, truncated, done, steps, episodic_return, ev, ep, snap

trainVars == <<config, pc, completed_steps, completed_evaluations,
               evaluation_return_means, obs, act, n_obs, n_act, reward,
               terminated, truncated, done, steps, episodic_return, ev, ep, snap>>

loopVars == <<completed_steps, completed_evaluations, evaluation_return_means>>
episodeVars == <<obs, act, n_obs, n_act, reward, terminated, truncated, done,
                 steps, episodic_return>>

vars == <<agentVars, histVars, calls, trainVars>>

\* the configurations train is run with
TotalSteps == 0 .. 2
EpisodeLengths == 1 .. 2
MaxEvalEpisodes == 1
MaxEvalFreq == 2

Configs ==
    [total_steps : TotalSteps, episode_length : EpisodeLengths,
     eval_episodes : 1 .. MaxEvalEpisodes, eval_freq : 1 .. MaxEvalFreq]

Half == <<1, 2>>

NoEval ==
    [eps_num |-> 0, obs |-> 0, act |-> 0, done |-> FALSE, steps |-> 0,
     episodic_return |-> RatOfInt(0), episodic_returns |-> <<>>,
     mean_return |-> RatOfInt(0)]

NoEpisode ==
    [sched_calls |-> 0, act_before_sched |-> FALSE, evals |-> 0, due |-> FALSE,
     stepped |-> <<>>, acts |-> 0, learns |-> 0]

NoSnap == [epsilon |-> DblZero, q_table |-> emptyTable]

\* done = terminated or truncated
StepDone(term, trunc) == term \/ trunc

\* as InnerLoopGoes, were the test steps <= config["episode_length"]
InnerLoopGoesInclusive(d, n, episode_length) == ~d /\ n <= episode_length

\* while not done and steps < config["episode_length"]
InnerLoopGoes(d, n, episode_length) == ~d /\ n < episode_length

\* as EvalDue, were the comparison <=
EvalDueInclusive(evaluations, n, eval_freq) ==
    ~RatLess(RatNorm(n, eval_freq), RatOfInt(evaluations))

\* as EvalDue, were the division the floor division //
EvalDueFloorDiv(evaluations, n, eval_freq) == evaluations < n \div eval_freq

\* if completed_evaluations < completed_steps / config["eval_freq"]
EvalDue(evaluations, n, eval_freq) == RatLess(RatOfInt(evaluations), RatNorm(n, eval_freq))

RECURSIVE SeqSum(_)
SeqSum(xs) == IF xs = <<>> THEN RatOfInt(0) ELSE RatAdd(xs[1], SeqSum(Tail(xs)))

\* np.mean(episodic_returns)
Mean(xs) == RatDivInt(SeqSum(xs), Len(xs))

\* the variables of train before it assigns them
TrainFrame ==
    /\ completed_steps = 0
    /\ completed_evaluations = 0
    /\ evaluation_return_means = <<>>
    /\ obs = 0 /\ act = 0 /\ n_obs = 0 /\ n_act = 0
    /\ reward = RatOfInt(0)
    /\ terminated = FALSE /\ truncated = FALSE /\ done = FALSE
    /\ steps = 0
    /\ episodic_return = RatOfInt(0)
    /\ ev = NoEval
    /\ ep = NoEpisode
    /\ snap = NoSnap

\* the state train is in once the agent is constructed and its counters are set
TrainStart ==
    /\ config \in Configs
    /\ pc = "while"
    /\ TrainFrame

\* while completed_steps < config["total_steps"]: ... return
TrainWhile ==
    /\ pc = "while"
    /\ pc' = IF completed_steps < config.total_steps THEN "reset" ELSE "returned"
    /\ NoAgentCall
    /\ UNCHANGED <<calls, config, loopVars, episodeVars, ev, ep, snap>>

\* obs, _ = env.reset(); episodic_return = 0; steps = 0; done = False
TrainReset ==
    /\ pc = "reset"
    /\ \E o \in States : obs' = o
    /\ episodic_return' = RatOfInt(0)
    /\ steps' = 0
    /\ done' = FALSE
    /\ pc' = "first_act"
    /\ ep' = NoEpisode
    /\ NoAgentCall
    /\ UNCHANGED <<calls, config, loopVars, act, n_obs, n_act,
                   reward, terminated, truncated, ev, snap>>

\* act = agent.act(obs)
TrainFirstAct ==
    /\ pc = "first_act"
    /\ \E out \in ActOutcomes(q_table, epsilon, n_acts, obs) :
          /\ AgentAct(obs, out)
          /\ act' = out.ret
          /\ pc' = IF out.err THEN "raised" ELSE "inner"
    /\ ep' = [ep EXCEPT !.act_before_sched = @ \/ ep.sched_calls = 0]
    /\ UNCHANGED <<calls, config, loopVars, obs, n_obs, n_act, reward, terminated,
                   truncated, done, steps, episodic_return, ev, snap>>

\* the inner while: n_obs, reward, terminated, truncated, info = env.step(act);
\* done = terminated or truncated; steps += 1; episodic_return += reward
TrainStep ==
    /\ pc = "inner"
    /\ InnerLoopGoes(done, steps, config.episode_length)
    /\ \E o \in States, r \in Rewards, term \in BOOLEAN, trunc \in BOOLEAN :
          /\ n_obs' = o
          /\ reward' = r
          /\ terminated' = term
          /\ truncated' = trunc
          /\ done' = StepDone(term, trunc)
          /\ episodic_return' = RatAdd(episodic_return, r)
    /\ steps' = steps + 1
    /\ ep' = [ep EXCEPT !.stepped = <<obs, act>>, !.acts = 0, !.learns = 0]
    /\ pc' = "schedule"
    /\ NoAgentCall
    /\ UNCHANGED <<calls, config, loopVars, obs, act, n_act, ev, snap>>

\* agent.schedule_hyperparameters(completed_steps, config["total_steps"])
TrainSchedule ==
    /\ pc = "schedule"
    /\ AgentSchedule(completed_steps, config.total_steps)
    /\ ep' = [ep EXCEPT !.sched_calls = @ + 1]
    /\ pc' = "next_act"
    /\ UNCHANGED <<calls, config, loopVars, episodeVars, ev, snap>>

\* n_act = agent.act(n_obs)
TrainNextAct ==
    /\ pc = "next_act"
    /\ \E out \in ActOutcomes(q_table, epsilon, n_acts, n_obs) :
          /\ AgentAct(n_obs, out)
          /\ n_act' = out.ret
          /\ pc' = IF out.err THEN "raised" ELSE "learn"
    /\ ep' = [ep EXCEPT !.act_before_sched = @ \/ ep.sched_calls = 0,
                        !.acts = @ + 1]
    /\ UNCHANGED <<calls, config, loopVars, obs, act, n_obs, reward, terminated,
                   truncated, done, steps, episodic_return, ev, snap>>

\* as TrainLearn, were act = n_act left out
TrainLearnKeepsAction ==
    /\ pc = "learn"
    /\ AgentLearn(obs, act, reward, n_obs, n_act, BoolInt(done))
    /\ obs' = n_obs
    /\ act' = act
    /\ ep' = [ep EXCEPT !.stepped = <<>>, !.learns = @ + 1]
    /\ pc' = "inner"
    /\ UNCHANGED <<calls, config, loopVars, n_obs, n_act, reward, terminated,
                   truncated, done, steps, episodic_return, ev, snap>>

\* agent.learn(obs, act, reward, n_obs, n_act, done); obs = n_obs; act = n_act
TrainLearn ==
    /\ pc = "learn"
    /\ AgentLearn(obs, act, reward, n_obs, n_act, BoolInt(done))
    /\ obs' = n_obs
    /\ act' = n_act
    /\ ep' = [ep EXCEPT !.stepped = <<>>, !.learns = @ + 1]
    /\ pc' = "inner"
    /\ UNCHANGED <<calls, config, loopVars, n_obs, n_act, reward, terminated,
                   truncated, done, steps, episodic_return, ev, snap>>

\* the locals of an episode, as they are before their first assignment
NoLocals ==
    /\ obs' = 0 /\ act' = 0 /\ n_obs' = 0 /\ n_act' = 0
    /\ reward' = RatOfInt(0)
    /\ terminated' = FALSE /\ truncated' = FALSE /\ done' = FALSE
    /\ steps' = 0
    /\ episodic_return' = RatOfInt(0)

\* the inner while ends; completed_steps += steps.  The locals of the
\* episode are dead from here on (each is assigned again before it is read)
\* and are forgotten.
TrainTally ==
    /\ pc = "inner"
    /\ ~InnerLoopGoes(done, steps, config.episode_length)
    /\ completed_steps' = completed_steps + steps
    /\ NoLocals
    /\ pc' = "eval_check"
    /\ NoAgentCall
    /\ UNCHANGED <<calls, config, completed_evaluations,
                   evaluation_return_means, ev, ep, snap>>

\* if completed_evaluations < completed_steps / config["eval_freq"]:
\*     evaluate(eval_env, agent, config["episode_length"], config["eval_episodes"])
TrainEvalCheck ==
    /\ pc = "eval_check"
    /\ LET due == EvalDue(completed_evaluations, completed_steps, config.eval_freq)
       IN  /\ ep' = [ep EXCEPT !.due = due]
           /\ IF due
              THEN /\ pc' = "ev_for"
                   /\ ev' = NoEval
                   /\ snap' = [epsilon |-> epsilon, q_table |-> q_table]
              ELSE /\ pc' = "while"
                   /\ UNCHANGED <<ev, snap>>
    /\ NoAgentCall
    /\ UNCHANGED <<calls, config, loopVars, episodeVars>>

\* evaluate: for eps_num in range(eval_episodes): obs, _ = env.reset();
\* episodic_return = 0; done = False; steps = 0
EvalFor ==
    /\ pc = "ev_for"
    /\ IF ev.eps_num < config.eval_episodes
       THEN /\ \E o \in States :
                 ev' = [ev EXCEPT !.obs = o, !.episodic_return = RatOfInt(0),
                                  !.done = FALSE, !.steps = 0]
            /\ pc' = "ev_while"
       ELSE /\ ev' = [ev EXCEPT !.mean_return = Mean(ev.episodic_returns)]
            /\ pc' = "ev_returned"
    /\ NoAgentCall
    /\ UNCHANGED <<calls, config, loopVars, episodeVars, ep, snap>>

\* evaluate: while not done and steps < max_steps: act = agent.act(obs)
EvalAct ==
    /\ pc = "ev_while"
    /\ InnerLoopGoes(ev.done, ev.steps, config.episode_length)
    /\ \E out \in ActOutcomes(q_table, epsilon, n_acts, ev.obs) :
          /\ AgentAct(ev.obs, out)
          /\ ev' = [ev EXCEPT !.act = out.ret]
          /\ pc' = IF out.err THEN "raised" ELSE "ev_step"
    /\ UNCHANGED <<calls, config, loopVars, episodeVars, ep, snap>>

\* evaluate: n_obs, reward, terminated, truncated, info = env.step(act);
\* done = terminated or truncated; episodic_return += reward; steps += 1;
\* obs = n_obs.  act is dead after the step and is forgotten.
EvalStep ==
    /\ pc = "ev_step"
    /\ \E o \in States, r \in Rewards, term \in BOOLEAN, trunc \in BOOLEAN :
          ev' = [ev EXCEPT !.obs = o, !.done = StepDone(term, trunc),
                           !.episodic_return = RatAdd(@, r), !.steps = @ + 1,
                           !.act = NoEval.act]
    /\ pc' = "ev_while"
    /\ NoAgentCall
    /\ UNCHANGED <<calls, config, loopVars, episodeVars, ep, snap>>

\* evaluate: the while ends; episodic_returns.append(episodic_return)
EvalAppend ==
    /\ pc = "ev_while"
    /\ ~InnerLoopGoes(ev.done, ev.steps, config.episode_length)
    /\ ev' = [ev EXCEPT !.episodic_returns = Append(@, ev.episodic_return),
                        !.eps_num = @ + 1]
    /\ pc' = "ev_for"
    /\ NoAgentCall
    /\ UNCHANGED <<calls, config, loopVars, episodeVars, ep, snap>>

\* completed_evaluations += 1; evaluation_return_means.append(mean_return)
TrainRecord ==
    /\ pc = "ev_returned"
    /\ completed_evaluations' = completed_evaluations + 1
    /\ evaluation_return_means' = Append(evaluation_return_means, ev.mean_return)
    /\ ep' = [ep EXCEPT !.evals = @ + 1]
    /\ ev' = NoEval
    /\ snap' = NoSnap
    /\ pc' = "while"
    /\ NoAgentCall
    /\ UNCHANGED <<calls, config, completed_steps, episodeVars>>

TrainNext ==
    \/ TrainWhile
    \/ TrainReset
    \/ TrainFirstAct
    \/ TrainStep
    \/ TrainSchedule
    \/ TrainNextAct
    \/ TrainLearn
    \/ TrainTally
    \/ TrainEvalCheck
    \/ EvalFor
    \/ EvalAct
    \/ EvalStep
    \/ EvalAppend
    \/ TrainRecord

\* agent = SARSA(num_actions=env.action_space.n, gamma=..., epsilon=..., alpha=...)
TrainNActs == {2}
TrainEpsilons == {Dbl09, DblZero}

Init ==
    /\ n_acts \in TrainNActs
    /\ epsilon \in TrainEpsilons
    /\ gamma = Half
    /\ alpha = Half
    /\ q_table = emptyTable
    /\ last = NoCall
    /\ written = {}
    /\ calls = 0
    /\ TrainStart

Next == TrainNext

Spec == Init /\ [][Next]_vars

\* The interpreter runs the next statement of train as long as there is one:
\* weak fairness of every statement.  The calls of schedule_hyperparameters
\* and of learn are enabled exactly when pc is at them and always leave it,
\* so their weak fairness is that pc is not at them for ever.
Fairness ==
    /\ WF_vars(TrainWhile) /\ WF_vars(TrainReset) /\ WF_vars(TrainFirstAct)
    /\ WF_vars(TrainStep) /\ WF_vars(TrainNextAct) /\ WF_vars(TrainTally)
    /\ WF_vars(TrainEvalCheck) /\ WF_vars(EvalFor) /\ WF_vars(EvalAct)
    /\ WF_vars(EvalStep) /\ WF_vars(EvalAppend) /\ WF_vars(TrainRecord)
    /\ []<>(pc # "schedule")
    /\ []<>(pc # "learn")

\* train on an environment with a single action (env.action_space.n = 1)
InitFair ==
    /\ n_acts = 1
    /\ epsilon \in TrainEpsilons
    /\ gamma = Half
    /\ alpha = Half
    /\ q_table = emptyTable
    /\ last = NoCall
    /\ written = {}
    /\ calls = 0
    /\ TrainStart

SpecFair == InitFair /\ [][Next]_vars /\ Fairness

(***************************************************************************)
(* A client that calls the agent's methods directly, in any order, on a    *)
(* freshly constructed agent.                                              *)
(***************************************************************************)
MaxCalls == 2

ApiNActs == {-1, 0, 1, 3}
ApiEpsilons == {DblZero, Dbl09, DblOne}
ApiActions == {0, 1}
ApiNextActions == {0}
ApiRewards == {RatOfInt(-1), RatOfInt(2)}
\* the done argument: False, True, and 2, which is no bool
ApiDones == {0, 1, 2}
ApiSchedules == {<<0, 2>>, <<1, 2>>}
ApiStates == {0, 1}

\* train is not running
NoTraining ==
    /\ config = [total_steps |-> 0, episode_length |-> 1, eval_episodes |-> 1,
                 eval_freq |-> 1]
    /\ pc = "none"
    /\ TrainFrame

InitAgent ==
    /\ n_acts \in ApiNActs
    /\ epsilon \in ApiEpsilons
    /\ gamma = Half
    /\ alpha = Half
    /\ q_table = emptyTable
    /\ last = NoCall
    /\ written = {}
    /\ calls = 0
    /\ NoTraining

ApiAct ==
    /\ calls < MaxCalls
    /\ \E o \in ApiStates : \E out \in ActOutcomes(q_table, epsilon, n_acts, o) :
          AgentAct(o, out)
    /\ calls' = calls + 1
    /\ UNCHANGED trainVars

ApiLearn ==
    /\ calls < MaxCalls
    /\ \E o \in ApiStates, a \in ApiActions, r \in ApiRewards,
          n_o \in ApiStates, n_a \in ApiNextActions, d \in ApiDones :
          AgentLearn(o, a, r, n_o, n_a, d)
    /\ calls' = calls + 1
    /\ UNCHANGED trainVars

ApiSchedule ==
    /\ calls < MaxCalls
    /\ \E tm \in ApiSchedules : AgentSchedule(tm[1], tm[2])
    /\ calls' = calls + 1
    /\ UNCHANGED trainVars

NextAgent == ApiAct \/ ApiLearn \/ ApiSchedule

SpecAgent == InitAgent /\ [][NextAgent]_vars

(***************************************************************************)
(* A client that sweeps schedule_hyperparameters over the timesteps of one *)
(* run: timestep 0, 1, 2, ... and at last timestep = max_timestep.         *)
(***************************************************************************)
SweepLength == 150

SweepMaxTimesteps == {1, 10, 100, 200, 300, 1000}

InitSchedule ==
    /\ n_acts = 2
    /\ epsilon = Dbl09
    /\ gamma = Half
    /\ alpha = Half
    /\ q_table = emptyTable
    /\ last = NoCall
    /\ written = {}
    /\ calls = 0
    /\ NoTraining

SweepFirst ==
    /\ last.op = "none"
    /\ \E m \in SweepMaxTimesteps : AgentSchedule(0, m)
    /\ UNCHANGED <<calls, trainVars>>

SweepNext ==
    /\ last.op = "schedule"
    /\ last.timestep < last.max_timestep
    /\ last.timestep < SweepLength
    /\ AgentSchedule(last.timestep + 1, last.max_timestep)
    /\ UNCHANGED <<calls, trainVars>>

SweepLast ==
    /\ last.op = "schedule"
    /\ last.timestep < last.max_timestep
    /\ AgentSchedule(last.max_timestep, last.max_timestep)
    /\ UNCHANGED <<calls, trainVars>>

NextSchedule == SweepFirst \/ SweepNext \/ SweepLast

SpecSchedule == InitSchedule /\ [][NextSchedule]_vars

(***************************************************************************)
(* A client that calls learn twice with the same arguments on a freshly    *)
(* constructed agent, for several learning rates and discount factors.     *)
(***************************************************************************)
RepeatAlphas == {<<1, 2>>, <<1, 1>>, <<2, 1>>}
RepeatGammas == {<<0, 1>>, <<1, 2>>, <<1, 1>>}
RepeatRewards == {RatOfInt(-1), RatOfInt(0), RatOfInt(2)}
RepeatActions == {0, 1}
RepeatDones == {0, 1}

InitRepeat ==
    /\ n_acts = 2
    /\ epsilon = Dbl09
    /\ gamma \in RepeatGammas
    /\ alpha \in RepeatAlphas
    /\ q_table = emptyTable
    /\ last = NoCall
    /\ written = {}
    /\ calls = 0
    /\ NoTraining

RepeatFirst ==
    /\ calls = 0
    /\ \E o \in ApiStates, a \in RepeatActions, r \in RepeatRewards,
          n_o \in ApiStates, n_a \in RepeatActions, d \in RepeatDones :
          AgentLearn(o, a, r, n_o, n_a, d)
    /\ calls' = 1
    /\ UNCHANGED trainVars

RepeatSecond ==
    /\ calls = 1
    /\ AgentLearn(last.obs, last.action, last.reward, last.n_obs, last.n_action,
                  last.done)
    /\ calls' = 2
    /\ UNCHANGED trainVars

NextRepeat == RepeatFirst \/ RepeatSecond

SpecRepeat == InitRepeat /\ [][NextRepeat]_vars

(***************************************************************************)
(* The claims.                                                             *)
(***************************************************************************)
\* the value a table gives a pair: the stored one, or 0 for a pair it lacks
Stored(t, k) == IF k \in DOMAIN t THEN t[k] ELSE <<0, 1>>

\* the actions of 0 .. n-1 whose value in table t at state o is the largest
Best(t, o, n) ==
    {a \in 0 .. (n - 1) :
        \A b \in 0 .. (n - 1) : ~RatLess(Stored(t, <<o, a>>), Stored(t, <<o, b>>))}

\* 1.0 - 0.95 in binary64, 0.050000000000000044: the floor of the schedule
EpsFloor == [m |-> <<6560, 13107, 26214, 204>>, e |-> -57]
\* EpsFloor + 2^-52
EpsFloorPlus == [m |-> <<6592, 13107, 26214, 204>>, e |-> -57]
\* the binary64 nearest 0.05
Dbl005 == [m |-> <<6554, 13107, 26214, 204>>, e |-> -57]

\* C1: when evaluate returns, the agent's epsilon and its table (the stored
\* keys and every stored value) are what they were when evaluate was called.
C1_EvaluateReadOnly ==
    pc = "ev_returned" =>
        /\ epsilon = snap.epsilon
        /\ DOMAIN q_table = DOMAIN snap.q_table
        /\ q_table = snap.q_table

\* C2: schedule_hyperparameters is called exactly once in an episode, and no
\* act of the episode (the one for its first action included) comes before it.
C2_ScheduleOncePerEpisode ==
    /\ ~ep.act_before_sched
    /\ (pc = "eval_check" => ep.sched_calls = 1)

\* C3: the keys the table stores are exactly the pairs some learn call
\* updated: act stores no key, learn stores none for (n_obs, n_action).
C3_KeysAreWrittenPairs == DOMAIN q_table = written

\* C4: learn with done False or True stores and returns
\* current + alpha*(reward + gamma*bootstrap*(1 - done) - current), current
\* and bootstrap read before the call; with done True that is
\* current + alpha*(reward - current), whatever the bootstrap value.
C4_LearnUpdate ==
    (last.op = "learn" /\ last.done \in {0, 1}) =>
        LET key       == <<last.obs, last.action>>
            current   == Stored(last.pre, key)
            bootstrap == Stored(last.pre, <<last.n_obs, last.n_action>>)
            target    == RatAdd(last.reward,
                                RatMul(RatMul(gamma, bootstrap), <<1 - last.done, 1>>))
            updated   == RatAdd(current, RatMul(alpha, RatSub(target, current)))
        IN  /\ key \in DOMAIN q_table
            /\ q_table[key] = updated
            /\ last.ret_val = updated
            /\ last.done = 1 =>
                   updated = RatAdd(current, RatMul(alpha, RatSub(last.reward, current)))

\* a terminal learn on a pair that is its own next pair and holds a value
C4_Witness ==
    /\ last.op = "learn"
    /\ last.done = 1
    /\ <<last.n_obs, last.n_action>> = <<last.obs, last.action>>
    /\ Stored(last.pre, <<last.obs, last.action>>) # <<0, 1>>

\* C5: with epsilon = 0 the actions act(state) can return are exactly the
\* actions of [0, n_acts) whose value is the largest of that state, and an
\* act made with epsilon = 0 returned one of them.
C5_GreedyIsArgmax ==
    /\ DblCmp(epsilon, DblZero) = 0 =>
          \A o \in ApiStates :
              LET outs == ActOutcomes(q_table, epsilon, n_acts, o)
              IN  /\ {x.ret : x \in {y \in outs : ~y.err}} = Best(q_table, o, n_acts)
                  /\ n_acts >= 1 => \A x \in outs : ~x.err
    /\ (last.op = "act" /\ DblCmp(last.eps_pre, DblZero) = 0 /\ ~last.err) =>
          last.ret_act \in Best(last.pre, last.obs, n_acts)

\* a greedy act on a tie of the actions 1 and 2 above action 0 returned 2
C5_Witness ==
    /\ last.op = "act"
    /\ DblCmp(last.eps_pre, DblZero) = 0
    /\ Best(last.pre, last.obs, n_acts) = {1, 2}
    /\ last.ret_act = 2

\* C6, as claimed: epsilon is 1.0 at timestep 0, the floor 1.0 - 0.95 for
\* every timestep >= 0.07 * max_timestep, strictly between the two below
\* that, and never rises with the timestep.
C6_FloorFromSevenPercent ==
    last.op = "schedule" =>
        LET t == last.timestep
            m == last.max_timestep
        IN  /\ t = 0 => epsilon = DblOne
            /\ 100 * t >= 7 * m => epsilon = EpsFloor
            /\ (0 < t /\ 100 * t < 7 * m) =>
                  DblCmp(EpsFloor, epsilon) < 0 /\ DblCmp(epsilon, DblOne) < 0
            /\ t > 0 => DblCmp(epsilon, last.eps_pre) <= 0

\* C6, amended: epsilon is 1.0 at timestep 0, the floor 1.0 - 0.95 for every
\* timestep > 0.07 * max_timestep (and at timestep 70 of 1000), strictly
\* between floor and 1.0 below 0.07 * max_timestep; at timestep =
\* 0.07 * max_timestep it is the floor or above it by at most 2^-52; it
\* never rises with the timestep and is never below 0.05 nor above 1.0.
C6_FloorAboveSevenPercent ==
    last.op = "schedule" =>
        LET t == last.timestep
            m == last.max_timestep
        IN  /\ t = 0 => epsilon = DblOne
            /\ 100 * t > 7 * m => epsilon = EpsFloor
            /\ (m = 1000 /\ t >= 70) => epsilon = EpsFloor
            /\ 100 * t = 7 * m =>
                  DblCmp(EpsFloor, epsilon) <= 0 /\ DblCmp(epsilon, EpsFloorPlus) <= 0
            /\ (0 < t /\ 100 * t < 7 * m) =>
                  DblCmp(EpsFloor, epsilon) < 0 /\ DblCmp(epsilon, DblOne) < 0
            /\ t > 0 => DblCmp(epsilon, last.eps_pre) <= 0
            /\ DblCmp(Dbl005, epsilon) <= 0
            /\ DblCmp(epsilon, DblOne) <= 0

\* the floor is reached at timestep 70 of 1000
C6_Witness ==
    /\ last.op = "schedule"
    /\ last.timestep = 70
    /\ last.max_timestep = 1000
    /\ epsilon = EpsFloor

\* C7: an outer iteration runs the evaluation iff completed_steps / eval_freq
\* exceeds the evaluations completed before it, and at most once; every run
\* adds one to completed_evaluations and one mean to the list, whose length
\* is completed_evaluations.
C7_EvaluationOncePerIteration ==
    /\ Len(evaluation_return_means) = completed_evaluations
    /\ ep.evals <= 1
    /\ pc \in {"ev_for", "ev_while", "ev_step", "ev_returned"} => ep.due /\ ep.evals = 0
    /\ pc = "while" =>
          ep.evals = IF (completed_evaluations - ep.evals) * config.eval_freq
                          < completed_steps
                     THEN 1 ELSE 0

\* an iteration ended with one evaluation run and the next threshold crossed too
C7_Witness ==
    /\ pc = "while"
    /\ ep.evals = 1
    /\ completed_evaluations * config.eval_freq < completed_steps

\* C8: the learn call that ends an episode, by the cap or by the
\* environment, is made with done true.
C8_LastLearnIsTerminal ==
    (pc = "inner" /\ last.op = "learn"
        /\ ~InnerLoopGoes(done, steps, config.episode_length)) =>
        last.done = 1

\* C9: with n_acts <= 0 every act raises, in the exploration branch and in
\* the greedy branch, whatever epsilon and the state.
C9_ActRaisesWithoutActions ==
    n_acts <= 0 =>
        /\ \A o \in ApiStates :
              LET outs == ActOutcomes(q_table, epsilon, n_acts, o)
              IN  /\ outs # {}
                  /\ \A x \in outs : x.err /\ x.ret = NoAction
                  /\ CanExplore(epsilon) => \E x \in outs : x.branch = "explore"
                  /\ CanExploit(epsilon) => \E x \in outs : x.branch = "greedy"
        /\ last.op = "act" => last.err

\* the greedy branch raised for an agent without actions
C9_Witness ==
    /\ n_acts <= 0
    /\ last.op = "act"
    /\ last.branch = "greedy"
    /\ last.err

\* C10: a learn call whose done is neither False/True nor 0/1 raises and
\* leaves the table as it was.
C10_LearnRejectsNonBoolean ==
    (last.op = "learn" /\ last.done \notin {0, 1}) =>
        last.err /\ q_table = last.pre

\* the discount that reaches the second of two equal learn calls: gamma when
\* the call is not terminal and its next pair is the pair it updates, else 0
RepeatDiscount ==
    IF last.done = 0 /\ <<last.n_obs, last.n_action>> = <<last.obs, last.action>>
    THEN gamma ELSE <<0, 1>>

\* C11, as claimed: after two learn calls with the same arguments on a fresh
\* table, the value stored for (state, action) after the second call differs
\* from the value after the first, for every alpha > 0, gamma in [0,1] and
\* reward.
C11_SecondLearnChangesValue ==
    (calls = 2 /\ last.op = "learn") =>
        q_table[<<last.obs, last.action>>] # last.pre[<<last.obs, last.action>>]

\* C11, amended: the value after the second call differs from the value
\* after the first exactly when reward # 0 and alpha * (1 - b) # 1, b being
\* gamma when the call is not terminal and its next pair is the updated pair
\* and 0 otherwise; so it differs for every 0 < alpha < 1 and reward # 0, and
\* it is the same for reward = 0 and for alpha = 1 with b = 0.
C11_SecondLearnChangesNonzero ==
    (calls = 2 /\ last.op = "learn") =>
        LET key == <<last.obs, last.action>>
            moves == /\ last.reward # <<0, 1>>
                     /\ RatMul(alpha, RatSub(<<1, 1>>, RepeatDiscount)) # <<1, 1>>
        IN  /\ key \in DOMAIN last.pre
            /\ (q_table[key] # last.pre[key]) <=> moves
            /\ (RatLess(<<0, 1>>, alpha) /\ RatLess(alpha, <<1, 1>>)
                   /\ last.reward # <<0, 1>>) => q_table[key] # last.pre[key]

\* the second of two equal calls moved the value, with alpha = 1/2 and reward 2
C11_Witness ==
    /\ calls = 2
    /\ last.op = "learn"
    /\ alpha = <<1, 2>>
    /\ last.reward = <<2, 1>>
    /\ q_table[<<last.obs, last.action>>] # last.pre[<<last.obs, last.action>>]

\* C12: with n_acts >= 1 act returns an action of [0, n_acts), whatever
\* epsilon, the state and the table; with epsilon = 1.0 every action of
\* [0, n_acts), n_acts - 1 included, is a possible result.
C12_ActionInRange ==
    n_acts >= 1 =>
        /\ \A o \in ApiStates :
              LET outs == ActOutcomes(q_table, epsilon, n_acts, o)
              IN  /\ outs # {}
                  /\ \A x \in outs : ~x.err /\ x.ret \in 0 .. (n_acts - 1)
                  /\ DblCmp(epsilon, DblOne) = 0 =>
                        {x.ret : x \in outs} = 0 .. (n_acts - 1)
        /\ last.op = "act" => ~last.err /\ last.ret_act \in 0 .. (n_acts - 1)

\* with epsilon = 1.0 act returned n_acts - 1, which the table does not rank first
C12_Witness ==
    /\ n_acts >= 1
    /\ last.op = "act"
    /\ DblCmp(last.eps_pre, DblOne) = 0
    /\ last.ret_act = n_acts - 1
    /\ last.ret_act \notin Best(last.pre, last.obs, n_acts)

\* C13: no step of a training run (act, learn, schedule_hyperparameters, the
\* steps of evaluate) changes gamma or alpha, and a step that changes
\* epsilon is a call of schedule_hyperparameters.
C13_OnlyScheduleChangesEpsilon ==
    [][/\ gamma' = gamma
       /\ alpha' = alpha
       /\ n_acts' = n_acts
       /\ epsilon' # epsilon => last'.op = "schedule"]_vars

\* a schedule call of the run changed epsilon, after which an episode was learnt from
C13_Witness ==
    /\ pc = "inner"
    /\ last.op = "learn"
    /\ DblCmp(epsilon, Dbl09) # 0 /\ DblCmp(epsilon, DblZero) # 0
    /\ gamma = Half /\ alpha = Half

\* C14: every env.step of an episode is followed by exactly one
\* act(next_state) and then exactly one learn; learn gets the state the step
\* was made from and the action that was stepped; and the next env.step of
\* the episode is made with the next_action that learn got.
C14_OnPolicy ==
    [][/\ (pc = "next_act" /\ pc' = "learn") =>
             /\ ep.acts = 0 /\ ep.learns = 0
             /\ last'.op = "act" /\ last'.obs = n_obs
             /\ n_act' = last'.ret_act
       /\ (pc = "learn" /\ pc' = "inner") =>
             /\ ep.acts = 1 /\ ep.learns = 0
             /\ last'.op = "learn"
             /\ <<last'.obs, last'.action>> = ep.stepped
             /\ <<last'.n_obs, last'.n_action>> = <<n_obs, n_act>>
       /\ (pc = "inner" /\ pc' = "schedule" /\ last.op = "learn") =>
             /\ ep.acts = 1 /\ ep.learns = 1
             /\ ep'.stepped = <<last.n_obs, last.n_action>>
       /\ (pc = "inner" /\ pc' = "eval_check") =>
             ep.acts = 1 /\ ep.learns = 1]_vars

\* the second step of an episode is being made with action 1 from state 1,
\* the first having been made with action 0 from state 0
C14_Witness ==
    /\ pc = "schedule"
    /\ steps = 2
    /\ ep.stepped = <<1, 1>>
    /\ <<0, 0>> \in written

\* C15: every act call of the training loop, the one for the initial action
\* of an episode included, is made with epsilon equal to the schedule value
\* for timestep = completed_steps at the start of the episode; the first
\* action of a run is selected with epsilon = 1.0.
C15_ActsUseScheduledEpsilon ==
    (last.op = "act" /\ pc \in {"inner", "learn"}) =>
        /\ DblCmp(last.eps_pre,
                  schedule_hyperparameters(completed_steps, config.total_steps)) = 0
        /\ completed_steps = 0 => DblCmp(last.eps_pre, DblOne) = 0

\* C16: train returns; every episode makes at least 1 and at most
\* episode_length environment steps; completed_steps grows with every outer
\* iteration; and on return completed_steps is at least total_steps and,
\* when total_steps > 0, at most total_steps + episode_length - 1.
C16_TrainTerminates ==
    /\ <>(pc = "returned")
    /\ [](pc = "returned" =>
             /\ config.total_steps <= completed_steps
             /\ config.total_steps > 0 =>
                   completed_steps <= config.total_steps + config.episode_length - 1
             /\ config.total_steps = 0 => completed_steps = 0)
    /\ [](steps <= config.episode_length)
    /\ [][(pc = "inner" /\ pc' = "eval_check") =>
             /\ 1 <= steps /\ steps <= config.episode_length
             /\ completed_steps' = completed_steps + steps
             /\ completed_steps' > completed_steps]_vars
    /\ [][completed_steps' >= completed_steps]_vars

\* train returned after an episode of full length overshot total_steps
C16_Witness ==
    /\ pc = "returned"
    /\ config.episode_length = 2
    /\ completed_steps = config.total_steps + config.episode_length - 1

\* C17: when episode_length <= eval_freq, after every outer-loop iteration
\* completed_evaluations is the ceiling of completed_steps / eval_freq; so
\* the first evaluation has run as soon as completed_steps > 0.
C17_EvaluationsAreCeiling ==
    (pc = "while" /\ config.episode_length <= config.eval_freq) =>
        /\ completed_evaluations =
              (completed_steps + config.eval_freq - 1) \div config.eval_freq
        /\ completed_steps > 0 => completed_evaluations >= 1

\* the first evaluation ran after an episode of one step, eval_freq being 2
C17_Witness ==
    /\ pc = "while"
    /\ config.episode_length <= config.eval_freq
    /\ config.eval_freq = 2
    /\ completed_steps = 1
    /\ completed_evaluations = 1

=============================================================================
